---------------------------- MODULE Spec2Model ----------------------------
(***************************************************************************)
(* A model of the wellness store (WellnessProvider), its persistence       *)
(* effects and the chat component's sendMessage pipeline.                  *)
(*                                                                         *)
(* React state is modelled as it behaves: a state setter given an updater  *)
(* function (setX(prev => ...)) works on the latest state, while a handler *)
(* that reads a state variable directly (addHabit reads `habits`) reads    *)
(* the snapshot of the render that created the handler.  The snapshot a    *)
(* caller holds is passed to the operators below as `seen`.                *)
(*                                                                         *)
(* Date.now() is the variable `now`.  The Math.random() suffix of the      *)
(* store's identifiers is modelled as a suffix that never repeats          *)
(* (nextRand): the store relies on collisions being negligible.            *)
(***************************************************************************)
EXTENDS Integers, Sequences, FiniteSets, TLC

VARIABLES
    todayMood,       \* useState<MoodId>("")
    moodHistory,     \* useState<MoodEntry[]>
    habits,          \* useState<HabitItem[]>
    todos,           \* useState<TodoItem[]>
    chatMessages,    \* useState<ChatMessage[]>
    sleepEntries,    \* useState<SleepEntry[]>
    journalEntries,  \* useState<JournalEntry[]>
    storage,         \* localStorage, one value per key
    phase,           \* position of the provider's mount effects
    pending,         \* state updates queued by the hydrate effects
    currentMessage,  \* ChatBot: the input field
    isTyping,        \* ChatBot: the typing indicator
    lastError,       \* ChatBot: the last-error banner
    sm,              \* ChatBot: the sendMessage call in flight
    apiKey,          \* whether VITE_GEMINI_API_KEY is set in the build
    now,             \* Date.now()
    nextRand,        \* the next unused Math.random() suffix
    storageFull,     \* whether localStorage.setItem can throw (quota)
    ops,             \* user events so far
    latestSleep,     \* history: per wake date, the last addSleepEntry of the session
    completions,     \* history: per habit, the times it went from incomplete to complete
    last             \* history: the operation that led to this state

storeVars == <<todayMood, moodHistory, habits, todos, chatMessages,
               sleepEntries, journalEntries>>
chatVars  == <<currentMessage, isTyping, lastError, sm>>
envVars   == <<apiKey, storageFull>>
vars == <<todayMood, moodHistory, habits, todos, chatMessages, sleepEntries,
          journalEntries, storage, phase, pending, currentMessage, isTyping,
          lastError, sm, apiKey, now, nextRand, storageFull, ops, latestSleep,
          completions, last>>

-----------------------------------------------------------------------------
(* Bounds of the model *)

MaxOps == 4        \* user events explored in one run
MaxTime == 12      \* the clock stops advancing here
TicksPerDay == 2   \* clock ticks in one calendar day of the model

StartTime == 11    \* Date.now() at process start (far from the greeting id "1")

-----------------------------------------------------------------------------
(* Values *)

Undefined == "<undefined>"
Null == "<null>"

Moods == {"excellent", "good", "okay", "poor", "awful"}
Categories == {"mindfulness", "health", "reflection", "exercise", "learning"}

\* String.prototype.toLowerCase on the strings the model uses
ToLowerCase(s) ==
    CASE s = "Walk" -> "walk"
      [] s = "Read" -> "read"
      [] s = "Anxious" -> "anxious"
      [] s = "Kill Myself" -> "kill myself"
      [] s = "Happy" -> "happy"
      [] OTHER -> s

\* String.prototype.trim on the strings the model uses
Trim(s) ==
    CASE s = "  " -> ""
      [] s = " Walk " -> "Walk"
      [] OTHER -> s

\* new Date().toISOString().slice(0, 10)
IsoDate(t) == "day" \o ToString(t \div TicksPerDay)

\* Date.now().toString() + Math.random().toString(36).slice(2)
RandomId(t, r) == ToString(t) \o "r" \o ToString(r)

Range(s) == {s[i] : i \in 1..Len(s)}
Ids(coll) == {coll[i].id : i \in 1..Len(coll)}


-----------------------------------------------------------------------------
(* The store: habits and todos *)

HabitNames == {"Walk", "walk", "Read"}
NoSuchId == "none"

\* habits.some((h) => h.name.toLowerCase() === name.toLowerCase())
NameExists(coll, name) ==
    \E i \in 1..Len(coll) : ToLowerCase(coll[i].name) = ToLowerCase(name)

NewHabit(name, category, id) ==
    [id |-> id, name |-> name, completed |-> FALSE, streak |-> 0,
     category |-> category, dateCompleted |-> Undefined]

\* addHabit: the duplicate check reads `habits` of the handler's render (seen),
\* the append is an updater on the latest state (prev)
addHabit(seen, prev, name, category, id) ==
    IF NameExists(seen, name) THEN prev
    ELSE Append(prev, NewHabit(name, category, id))

\* toggleHabit with the streak taken back when a habit is unchecked
toggleHabitUndoingStreak(prev, id, t) ==
    [i \in 1..Len(prev) |->
        IF prev[i].id = id
        THEN [prev[i] EXCEPT
                !.completed = ~prev[i].completed,
                !.streak = IF prev[i].completed THEN prev[i].streak - 1
                           ELSE prev[i].streak + 1,
                !.dateCompleted = IF ~prev[i].completed THEN IsoDate(t)
                                  ELSE Undefined]
        ELSE prev[i]]

\* toggleHabit leaving the completion date on a habit that is unchecked
toggleHabitKeepingDate(prev, id, t) ==
    [i \in 1..Len(prev) |->
        IF prev[i].id = id
        THEN [prev[i] EXCEPT
                !.completed = ~prev[i].completed,
                !.streak = IF prev[i].completed THEN prev[i].streak
                           ELSE prev[i].streak + 1,
                !.dateCompleted = IF ~prev[i].completed THEN IsoDate(t)
                                  ELSE prev[i].dateCompleted]
        ELSE prev[i]]

\* toggleHabit: an updater on the latest state
toggleHabit(prev, id, t) ==
    [i \in 1..Len(prev) |->
        IF prev[i].id = id
        THEN [prev[i] EXCEPT
                !.completed = ~prev[i].completed,
                !.streak = IF prev[i].completed THEN prev[i].streak
                           ELSE prev[i].streak + 1,
                !.dateCompleted = IF ~prev[i].completed THEN IsoDate(t)
                                  ELSE Undefined]
        ELSE prev[i]]

\* deleteHabit by index: splice(findIndex(...), 1) removes the last habit when
\* no habit matches and the index is -1
deleteHabitSplicing(prev, id) ==
    LET Keep(h) == h.id # id IN
    IF id \in Ids(prev) THEN SelectSeq(prev, Keep)
    ELSE SubSeq(prev, 1, Len(prev) - 1)

\* deleteHabit: an updater on the latest state
deleteHabit(prev, id) ==
    LET Keep(h) == h.id # id IN SelectSeq(prev, Keep)

\* addTodos, first half: items.map(...) gives each item a fresh identifier
withIds(items, t, r) ==
    [i \in 1..Len(items) |->
        [id |-> RandomId(t, r + i - 1), title |-> items[i].title,
         category |-> items[i].category, completed |-> FALSE]]

\* addTodos, second half: withIds.forEach((t) => addHabit(t.title, t.category)).
\* Every call of the loop is made through the same addHabit, so with the same
\* snapshot `seen`; the result lists each call with the collection before and
\* after its updater.
RECURSIVE mirrorHabits(_, _, _, _, _)
mirrorHabits(seen, prev, items, t, r) ==
    IF items = <<>> THEN <<>>
    ELSE LET it == Head(items)
             after == addHabit(seen, prev, it.title, it.category, RandomId(t, r))
         IN  <<[name |-> it.title, category |-> it.category,
                before |-> prev, after |-> after]>>
             \o mirrorHabits(seen, after, Tail(items), t, r + 1)

HabitsAfter(prev, calls) ==
    IF calls = <<>> THEN prev ELSE calls[Len(calls)].after

\* addTodos(items) called through a handler whose render saw `seen`
addTodos(seen, prevTodos, prevHabits, items, t, r) ==
    LET ws == withIds(items, t, r)
        calls == mirrorHabits(seen, prevHabits, ws, t, r + Len(items))
    IN  [todos |-> ws \o prevTodos,
         habits |-> HabitsAfter(prevHabits, calls),
         calls |-> calls]

-----------------------------------------------------------------------------
(* The store: mood, chat, sleep, journal *)

\* setTodayMood: the new value of the indicator
setTodayMood(prev, mood) == mood

\* addMoodEntry putting the new entry behind the earlier ones
addMoodEntryAtEnd(prev, mood, note, t) ==
    prev \o <<[date |-> t, mood |-> mood, note |-> note]>>

\* addMoodEntry: the entry is stamped with new Date().toISOString()
addMoodEntry(prev, mood, note, t) ==
    <<[date |-> t, mood |-> mood, note |-> note]>> \o prev

\* addChatMessage putting the message ahead of the transcript
addChatMessageAtFront(prev, message) == <<message>> \o prev

\* addChatMessage
addChatMessage(prev, message) == Append(prev, message)

\* A JavaScript object is a function from its own keys to values; reading a
\* key it does not have gives undefined.
Get(obj, key) == IF key \in DOMAIN obj THEN obj[key] ELSE Undefined

\* { ...a, ...b }
Spread(a, b) ==
    [k \in DOMAIN a \cup DOMAIN b |-> IF k \in DOMAIN b THEN b[k] ELSE a[k]]

\* addSleepEntry without the filter on the wake date
addSleepEntryKeepingAll(prev, entry, id) ==
    <<[k \in DOMAIN entry \cup {"id"} |->
          IF k = "id" THEN id ELSE entry[k]]>> \o prev

\* addSleepEntry: { id, ...entry } replaces the entry of the same wake date
\* and goes first
addSleepEntry(prev, entry, id) ==
    LET OtherDate(e) == e.date # entry.date
    IN  <<Spread([id |-> id], entry)>> \o SelectSeq(prev, OtherDate)

\* addJournalEntry: { id, ...entry } goes first
addJournalEntry(prev, entry, id) ==
    <<Spread([id |-> id], entry)>> \o prev

\* updateJournalEntry: { ...entry, ...updatedEntry } on the matching entry
updateJournalEntry(prev, id, updatedEntry) ==
    [i \in 1..Len(prev) |->
        IF prev[i].id = id THEN Spread(prev[i], updatedEntry) ELSE prev[i]]

\* deleteJournalEntry
deleteJournalEntry(prev, id) ==
    LET Keep(e) == e.id # id IN SelectSeq(prev, Keep)

-----------------------------------------------------------------------------
(* localStorage and JSON *)

Keys == {"pp_chat_messages", "pp_sleep_entries", "pp_journal_entries"}

\* A stored value: absent (getItem gives null), text JSON.parse rejects, text
\* that parses to something that is not an array, or the text of an array.
Absent == [kind |-> "absent"]
Corrupt == [kind |-> "corrupt"]
NotArray == [kind |-> "notarray"]

\* The keys whose value can be undefined in the objects of this model
OptionalKeys == {"mood", "note", "title", "content"}

\* JSON.stringify drops the keys of an object whose value is undefined
StringifyObject(obj) ==
    [k \in {k \in DOMAIN obj : ~(k \in OptionalKeys /\ obj[k] = Undefined)}
        |-> obj[k]]

\* JSON.stringify(collection), kept as the array JSON.parse gives back
Stringify(coll) ==
    [kind |-> "array",
     val |-> [i \in 1..Len(coll) |-> StringifyObject(coll[i])]]

\* setItem writing only the newest entry of the collection
setItemNewestOnly(store, key, coll, ok) ==
    IF ok
    THEN [store EXCEPT ![key] =
            Stringify(IF Len(coll) > 1 THEN <<coll[1]>> ELSE coll)]
    ELSE store

\* The outcomes of a write: it can throw only when the quota is exhausted
WriteOk == IF storageFull THEN BOOLEAN ELSE {TRUE}

\* localStorage.setItem inside try/catch: a write that throws changes nothing
setItem(store, key, coll, ok) ==
    IF ok THEN [store EXCEPT ![key] = Stringify(coll)] ELSE store

-----------------------------------------------------------------------------
(* Text.  A text is a sequence of fragments (words or short phrases); the   *)
(* fragments are chosen so that no keyword of the regular expressions spans *)
(* two of them.                                                             *)

Blank == " "

\* The alternatives of the regular expressions that occur in a fragment,
\* compared case-sensitively
Occurs(s) ==
    CASE s = "anxious" -> {"anxious"}
      [] s = "sleep" -> {"sleep"}
      [] s = "tired" -> {"tired"}
      [] s = "happy" -> {"happy"}
      [] s = "unhappy" -> {"happy"}
      [] s = "good" -> {"good"}
      [] s = "sad" -> {"sad"}
      [] s = "angry" -> {"angry"}
      [] s = "awful" -> {"awful"}
      [] s = "kill myself" -> {"kill myself"}
      [] s = "send it" -> {"end it"}
      [] OTHER -> {}

\* text.toLowerCase()
LowerText(text) == [i \in 1..Len(text) |-> ToLowerCase(text[i])]

\* /(a|b|...)/.test(text)
RegexTest(alternatives, text) ==
    \E i \in 1..Len(text) : Occurs(text[i]) \cap alternatives # {}

\* /(a|b|...)/i.test(text)
RegexTestI(alternatives, text) == RegexTest(alternatives, LowerText(text))

\* text.trim()
RECURSIVE TrimLeft(_)
TrimLeft(text) ==
    IF text # <<>> /\ Head(text) = Blank THEN TrimLeft(Tail(text)) ELSE text

RECURSIVE TrimRight(_)
TrimRight(text) ==
    IF text # <<>> /\ text[Len(text)] = Blank
    THEN TrimRight(SubSeq(text, 1, Len(text) - 1)) ELSE text

TrimText(text) == TrimRight(TrimLeft(text))

-----------------------------------------------------------------------------
(* ChatBot: the local classification *)

ExcellentWords == {"great", "awesome", "fantastic", "amazing", "grateful",
                   "happy", "joyful"}
GoodWords == {"good", "fine", "better", "optimistic", "calm"}
PoorWords == {"stressed", "anxious", "sad", "tired", "overwhelmed", "down",
              "lonely", "angry"}
AwfulWords == {"awful", "terrible", "horrible", "depressed", "can't cope"}

defaults ==
    << [title |-> "Hydrate: 8 glasses of water", category |-> "health"],
       [title |-> "10-minute walk", category |-> "exercise"],
       [title |-> "Journal for 5 minutes", category |-> "reflection"],
       [title |-> "5-minute breathing", category |-> "mindfulness"],
       [title |-> "Read 10 pages", category |-> "learning"] >>

\* defaults.forEach(d => { if (todos.length < 5 && !titles.has(d.title)) todos.push(d) })
RECURSIVE pushDefaults(_, _, _)
pushDefaults(acc, titles, ds) ==
    IF ds = <<>> THEN acc
    ELSE pushDefaults(
            IF Len(acc) < 5 /\ Head(ds).title \notin titles
            THEN Append(acc, Head(ds)) ELSE acc,
            titles, Tail(ds))

\* todos.slice(0, 5)
Slice5(s) == SubSeq(s, 1, IF Len(s) < 5 THEN Len(s) ELSE 5)

\* The rule items of fallbackAnalyze, in the order of its four tests
ruleItems(t) ==
    (IF RegexTest({"anxious", "stressed", "overwhelmed"}, t)
     THEN <<[title |-> "5-minute breathing", category |-> "mindfulness"]>>
     ELSE <<>>)
    \o (IF RegexTest({"tired", "sleep", "insomnia"}, t)
        THEN <<[title |-> "Wind-down routine before bed", category |-> "health"]>>
        ELSE <<>>)
    \o (IF RegexTest({"sad", "down", "lonely"}, t)
        THEN <<[title |-> "Journal for 5 minutes", category |-> "reflection"]>>
        ELSE <<>>)
    \o (IF RegexTest({"angry", "tense"}, t)
        THEN <<[title |-> "10-minute walk", category |-> "exercise"]>>
        ELSE <<>>)

\* The mood of fallbackAnalyze: the first group with a keyword in t
ruleMood(t) ==
    IF RegexTest(ExcellentWords, t) THEN "excellent"
    ELSE IF RegexTest(GoodWords, t) THEN "good"
    ELSE IF RegexTest(PoorWords, t) THEN "poor"
    ELSE IF RegexTest(AwfulWords, t) THEN "awful"
    ELSE "okay"

\* fallbackAnalyze pushing the defaults without looking at the titles
fallbackAnalyzeAnyTitle(text) ==
    LET t == LowerText(text)
    IN  [mood |-> ruleMood(t),
         todos |-> Slice5(pushDefaults(ruleItems(t), {}, defaults))]

\* fallbackAnalyze pushing the defaults ahead of the rule items
fallbackAnalyzeDefaultsFirst(text) ==
    LET t == LowerText(text)
    IN  [mood |-> ruleMood(t), todos |-> Slice5(defaults \o ruleItems(t))]

fallbackAnalyze(text) ==
    LET t == LowerText(text)
        rules == ruleItems(t)
        titles == {rules[i].title : i \in 1..Len(rules)}
    IN  [mood |-> ruleMood(t),
         todos |-> Slice5(pushDefaults(rules, titles, defaults))]

-----------------------------------------------------------------------------
(* ChatBot: the classification request *)

\* A response of the classifier: the call rejects; the text holds no braces;
\* the text between the first { and the last } does not parse; or it parses to
\* an object.  The object is a function of its keys.  An element of todos is an
\* object, or null (written [isNull |-> TRUE]).
JsonNull == [isNull |-> TRUE]
IsNull(v) == "isNull" \in DOMAIN v

\* !v for the values the model reads as truth values
Falsy(v) == v \in {Undefined, Null, ""}

\* String(v) for a string or undefined
StringOf(v) == IF v = Undefined THEN "undefined" ELSE v

\* A JSON value read as an array: [array |-> TRUE, items |-> <<...>>]; any
\* other value: [array |-> FALSE]
ArrayOf(items) == [array |-> TRUE, items |-> items]
NoArray == [array |-> FALSE]

\* Array.isArray(parsed.todos)
IsArray(obj, key) == key \in DOMAIN obj /\ obj[key].array

\* The try block with an empty list of kept items returned as it is
parseAnalysisKeepingEmpty(resp, fallback) ==
    IF resp.kind # "json" THEN [threw |-> TRUE]
    ELSE LET parsed == resp.value IN
         IF Falsy(Get(parsed, "mood")) \/ ~IsArray(parsed, "todos")
         THEN [threw |-> TRUE]
         ELSE LET first == SubSeq(parsed.todos.items, 1,
                                  IF Len(parsed.todos.items) < 5
                                  THEN Len(parsed.todos.items) ELSE 5) IN
              IF \E i \in 1..Len(first) : IsNull(first[i])
              THEN [threw |-> TRUE]
              ELSE LET Title(t) == Trim(IF Get(t, "title") = Undefined
                                        THEN "undefined" ELSE t.title)
                       Kept(t) == Title(t) # ""
                       kept == SelectSeq(first, Kept)
                   IN  [threw |-> FALSE,
                        value |-> [mood |-> parsed.mood,
                                   todos |-> [i \in 1..Len(kept) |->
                                        [title |-> Title(kept[i]),
                                         category |->
                                            IF Falsy(Get(kept[i], "category"))
                                            THEN "health"
                                            ELSE kept[i].category]]]]

\* One element of parsed.todos.slice(0, 5).map(...)
mapTodo(t) ==
    [title |-> Trim(StringOf(Get(t, "title"))),
     category |-> IF Falsy(Get(t, "category")) THEN "health"
                  ELSE t.category]

\* The body of the try block after the response text is there; threw marks an
\* exception on the way (JSON.parse, "Invalid parse", a property read on null)
parseAnalysis(resp, fallback) ==
    IF resp.kind # "json" THEN [threw |-> TRUE]
    ELSE LET parsed == resp.value IN
         IF Falsy(Get(parsed, "mood")) \/ ~IsArray(parsed, "todos")
         THEN [threw |-> TRUE]
         ELSE LET first == Slice5(parsed.todos.items) IN
              IF \E i \in 1..Len(first) : IsNull(first[i])
              THEN [threw |-> TRUE]
              ELSE LET mapped == [i \in 1..Len(first) |-> mapTodo(first[i])]
                       NonEmpty(t) == t.title # ""
                       kept == SelectSeq(mapped, NonEmpty)
                   IN  [threw |-> FALSE,
                        value |-> [mood |-> parsed.mood,
                                   todos |-> IF Len(kept) = 0
                                             THEN fallback.todos ELSE kept]]

\* analyzeUserText whose failure path returns the mood alone
analyzeUserTextEmptyOnFailure(userText, key, resp) ==
    LET fallback == fallbackAnalyze(userText)
        bare == [mood |-> fallback.mood, todos |-> <<>>]
    IN  IF ~key THEN bare
        ELSE IF resp.kind = "reject" THEN bare
        ELSE LET r == parseAnalysis(resp, fallback)
             IN  IF r.threw THEN bare ELSE r.value

\* analyzeUserText(userText) with the credential `key` and the classifier
\* answering `resp`
analyzeUserText(userText, key, resp) ==
    LET fallback == fallbackAnalyze(userText) IN
    IF ~key THEN fallback
    ELSE IF resp.kind = "reject" THEN fallback
    ELSE LET r == parseAnalysis(resp, fallback)
         IN  IF r.threw THEN fallback ELSE r.value

-----------------------------------------------------------------------------
(* ChatBot: the reply request *)

botResponses ==
    << "That sounds like you're going through a lot.",
       "I hear you. Taking time for yourself is so important.",
       "It's wonderful that you're sharing this with me.",
       "Thank you for being open about your feelings.",
       "I understand. Sometimes just talking about it can help.",
       "That's a great insight.",
       "I'm glad you're taking care of yourself." >>

SafetyPreamble == "I'm really sorry you're feeling this way."

CrisisWords == {"suicide", "kill myself", "end it", "can't go on",
                "self-harm", "hurt myself"}

\* generateBotReply that answers with an empty text where it should throw
generateBotReplySilent(userText, key, answer) ==
    IF ~key \/ ~answer.ok THEN [threw |-> FALSE, text |-> <<>>, requests |-> 0]
    ELSE [threw |-> FALSE, requests |-> 1,
          text |-> IF RegexTestI(CrisisWords, userText)
                   THEN <<SafetyPreamble>> \o answer.text
                   ELSE answer.text]

\* generateBotReply(history, userText) with the credential `key` and the
\* assistant answering `answer` ([ok |-> FALSE] when the call rejects);
\* threw marks the error the function rethrows to its caller, requests counts
\* the calls of chat.sendMessage
generateBotReply(userText, key, answer) ==
    IF ~key THEN [threw |-> TRUE, message |-> "Missing API key", requests |-> 0]
    ELSE IF ~answer.ok
    THEN [threw |-> TRUE, message |-> answer.message, requests |-> 1]
    ELSE [threw |-> FALSE, requests |-> 1,
          text |-> IF RegexTestI(CrisisWords, userText)
                   THEN <<SafetyPreamble>> \o answer.text
                   ELSE answer.text]

\* The calls of model.generateContent that analyzeUserText makes: it returns
\* the fallback before building the client when the credential is missing
analyzeRequests(key) == IF key THEN 1 ELSE 0

\* history.findIndex((m) => m.sender === "user"), counted from 0
firstUserIndex(history) ==
    LET users == {i \in 1..Len(history) : history[i].sender = "user"}
    IN  IF users = {} THEN -1
        ELSE (CHOOSE i \in users : \A j \in users : i <= j) - 1

\* generateBotReply: the history given to startChat, history.slice from the
\* first user message on, each message as its role and text
chatHistory(history) ==
    LET cut == IF firstUserIndex(history) >= 0
               THEN SubSeq(history, firstUserIndex(history) + 1, Len(history))
               ELSE <<>>
    IN  [i \in 1..Len(cut) |->
            [role |-> IF cut[i].sender = "user" THEN "user" ELSE "model",
             text |-> cut[i].text]]

\* The reply requests of one generateBotReply(history, userText): startChat
\* with the history, then chat.sendMessage(userText)
replyRequests(history, userText, n) ==
    [i \in 1..n |-> [history |-> chatHistory(history), message |-> userText]]

-----------------------------------------------------------------------------
(* Initial state: the provider and the chat component after their first     *)
(* render, before the mount effects have run                                *)

ChatKey == "pp_chat_messages"
SleepKey == "pp_sleep_entries"
JournalKey == "pp_journal_entries"

Greeting(t) ==
    [id |-> "1", text |-> <<"Hello! I'm here to support you.">>,
     sender |-> "bot", timestamp |-> t]

initialMoodHistory(t) ==
    << [date |-> IsoDate(t), mood |-> "good",
        note |-> "Had a productive day at work"] >>

SleepDates == {"2026-01-01", "2026-01-02"}
NoSleepLogged == [d \in SleepDates |-> [logged |-> FALSE]]
NoCompletions == [id \in {} |-> 0]

Idle == [pc |-> "idle"]
NoPending == [k \in Keys |-> [set |-> FALSE]]

InitMemory ==
    /\ todayMood = ""
    /\ moodHistory = initialMoodHistory(StartTime)
    /\ habits = <<>>
    /\ todos = <<>>
    /\ chatMessages = <<Greeting(StartTime)>>
    /\ sleepEntries = <<>>
    /\ journalEntries = <<>>
    /\ phase = "hydrate"
    /\ pending = NoPending
    /\ currentMessage = <<>>
    /\ isTyping = FALSE
    /\ lastError = Null
    /\ sm = Idle
    /\ ops = 0
    /\ latestSleep = NoSleepLogged
    /\ completions = NoCompletions
    /\ now = StartTime
    /\ nextRand = 0

\* The contents of the store at the start, and of the memory before it
Booted(store, prior) == [stored |-> store, prior |-> prior]
NoPrior ==
    [chat |-> <<>>, sleep |-> <<>>, journal |-> <<>>, habits |-> <<>>,
     todos |-> <<>>, moodHistory |-> <<>>, todayMood |-> ""]
NothingStored == [k \in Keys |-> Absent]

Init ==
    /\ InitMemory
    /\ storage = NothingStored
    /\ apiKey \in BOOLEAN
    /\ storageFull = FALSE
    /\ last = [op |-> "start", boot |-> Booted(NothingStored, NoPrior)]

-----------------------------------------------------------------------------
(* Mount: the provider's effects, in the order the component declares them  *)

\* A hydrate effect that asks every collection for an entry, as the chat's does
hydrateNonEmpty(store, key, minLength) ==
    LET raw == store[key] IN
    IF raw.kind = "array" /\ Len(raw.val) >= minLength /\ minLength > 0
    THEN [set |-> TRUE, val |-> raw.val]
    ELSE [set |-> FALSE]

\* Hydration under one try block: nothing is set unless every key decodes
hydrateAllOrNothing(store, key, minLength) ==
    LET raw == store[key] IN
    IF raw.kind = "array" /\ Len(raw.val) >= minLength
       /\ \A k \in Keys : store[k].kind = "array"
    THEN [set |-> TRUE, val |-> raw.val]
    ELSE [set |-> FALSE]

\* A hydrate effect: what it passes to the state setter, if anything.
\* minLength is 1 for the chat (parsed.length > 0) and 0 otherwise.
hydrate(store, key, minLength) ==
    LET raw == store[key] IN
    IF raw.kind = "array" /\ Len(raw.val) >= minLength
    THEN [set |-> TRUE, val |-> raw.val]
    ELSE [set |-> FALSE]

\* The three hydrate effects read the store and queue their state updates
MountHydrate ==
    /\ phase = "hydrate"
    /\ UNCHANGED <<ops, latestSleep, completions>>
    /\ pending' = [k \in Keys |->
                     hydrate(storage, k, IF k = ChatKey THEN 1 ELSE 0)]
    /\ phase' = "persist"
    /\ last' = [op |-> "hydrate", boot |-> last.boot]
    /\ UNCHANGED <<storeVars, chatVars, storage, envVars, now, nextRand>>

\* The three persist effects of the first render write the state of that
\* render, which the queued updates have not reached yet
MountPersist ==
    /\ phase = "persist"
    /\ UNCHANGED <<ops, latestSleep, completions>>
    /\ \E ok \in [Keys -> WriteOk] :
         storage' = setItem(setItem(setItem(storage,
                        ChatKey, chatMessages, ok[ChatKey]),
                        SleepKey, sleepEntries, ok[SleepKey]),
                        JournalKey, journalEntries, ok[JournalKey])
    /\ phase' = "rerender"
    /\ last' = [op |-> "persist", boot |-> last.boot]
    /\ UNCHANGED <<storeVars, chatVars, pending, envVars, now, nextRand>>

\* The queued updates are applied; the persist effect of each collection that
\* was set runs again
MountRerender ==
    /\ phase = "rerender"
    /\ UNCHANGED <<ops, latestSleep, completions>>
    /\ LET chat == IF pending[ChatKey].set THEN pending[ChatKey].val
                   ELSE chatMessages
           sleep == IF pending[SleepKey].set THEN pending[SleepKey].val
                    ELSE sleepEntries
           journal == IF pending[JournalKey].set THEN pending[JournalKey].val
                      ELSE journalEntries
       IN  /\ chatMessages' = chat
           /\ sleepEntries' = sleep
           /\ journalEntries' = journal
           /\ \E ok \in [Keys -> WriteOk] :
                storage' = setItem(setItem(setItem(storage,
                    ChatKey, chat, ok[ChatKey] /\ pending[ChatKey].set),
                    SleepKey, sleep, ok[SleepKey] /\ pending[SleepKey].set),
                    JournalKey, journal, ok[JournalKey] /\ pending[JournalKey].set)
    /\ pending' = NoPending
    /\ phase' = "ready"
    /\ last' = [op |-> "mounted", boot |-> last.boot]
    /\ UNCHANGED <<todayMood, moodHistory, habits, todos, chatVars, envVars,
                   now, nextRand>>

-----------------------------------------------------------------------------
(* User events.  A handler runs to completion; while a sendMessage awaits   *)
(* the assistant other handlers can run, and without the credential nothing *)
(* is awaited over the network, so none runs in between.                    *)

\* The memory and the store as a handler finds them
Before ==
    [todayMood |-> todayMood, moodHistory |-> moodHistory, habits |-> habits,
     todos |-> todos, chatMessages |-> chatMessages,
     sleepEntries |-> sleepEntries, journalEntries |-> journalEntries,
     storage |-> storage]

\* A user event that is not an addSleepEntry
CountOp == ops' = ops + 1 /\ UNCHANGED <<latestSleep, completions>>

\* The toggles counted per habit of the collection `after`, the habits of
\* `toggled` having gone from incomplete to complete
Recount(after, toggled) ==
    [id \in Ids(after) |->
        (IF id \in DOMAIN completions THEN completions[id] ELSE 0)
        + (IF id \in toggled THEN 1 ELSE 0)]

\* The habit of that identifier is not completed
IsIncomplete(id) ==
    \E i \in 1..Len(habits) : habits[i].id = id /\ ~habits[i].completed

\* A user event on the habits
CountHabitOp == ops' = ops + 1 /\ UNCHANGED latestSleep

UserTurn ==
    /\ phase = "ready"
    /\ sm.pc = "idle" \/ apiKey
    /\ ops < MaxOps

Tick ==
    /\ now < MaxTime
    /\ UNCHANGED <<ops, latestSleep, completions>>
    /\ now' = now + 1
    /\ UNCHANGED <<storeVars, chatVars, storage, phase, pending, envVars,
                   nextRand, last>>

\* HabitTracker.handleAddHabit: addHabit(newHabitName.trim(), "health")
HandleAddHabit(name) ==
    /\ UserTurn
    /\ CountHabitOp
    /\ habits' = addHabit(habits, habits, name, "health",
                          RandomId(now, nextRand))
    /\ nextRand' = nextRand + 1
    /\ completions' = Recount(habits', {})
    /\ last' = [op |-> "addHabit", before |-> Before, name |-> name,
                pre |-> habits]
    /\ UNCHANGED <<todayMood, moodHistory, todos, chatMessages, sleepEntries,
                   journalEntries, chatVars, storage, phase, pending, envVars,
                   now>>

\* toggleHabit that also flips the todo the habit was mirrored from
ToggleHabitWithTodo(id) ==
    /\ UserTurn
    /\ CountHabitOp
    /\ habits' = toggleHabit(habits, id, now)
    /\ completions' = Recount(habits',
                              {h \in Ids(habits) : h = id /\ IsIncomplete(h)})
    /\ last' = [op |-> "toggleHabit", before |-> Before, id |-> id,
                pre |-> habits, at |-> now]
    /\ todos' = [i \in 1..Len(todos) |->
                    IF \E j \in 1..Len(habits) :
                          habits[j].id = id /\ habits[j].name = todos[i].title
                    THEN [todos[i] EXCEPT !.completed = ~todos[i].completed]
                    ELSE todos[i]]
    /\ UNCHANGED <<todayMood, moodHistory, chatMessages, sleepEntries,
                   journalEntries, chatVars, storage, phase, pending, envVars,
                   now, nextRand>>

\* HabitTracker: onCheckedChange={() => toggleHabit(habit.id)}
ToggleHabit(id) ==
    /\ UserTurn
    /\ CountHabitOp
    /\ habits' = toggleHabit(habits, id, now)
    /\ completions' = Recount(habits',
                              {h \in Ids(habits) : h = id /\ IsIncomplete(h)})
    /\ last' = [op |-> "toggleHabit", before |-> Before, id |-> id,
                pre |-> habits, at |-> now]
    /\ UNCHANGED <<todayMood, moodHistory, todos, chatMessages, sleepEntries,
                   journalEntries, chatVars, storage, phase, pending, envVars,
                   now, nextRand>>

\* HabitTracker: onClick={() => deleteHabit(habit.id)}
DeleteHabit(id) ==
    /\ UserTurn
    /\ CountHabitOp
    /\ habits' = deleteHabit(habits, id)
    /\ completions' = Recount(habits', {})
    /\ last' = [op |-> "deleteHabit", before |-> Before, id |-> id,
                pre |-> habits]
    /\ UNCHANGED <<todayMood, moodHistory, todos, chatMessages, sleepEntries,
                   journalEntries, chatVars, storage, phase, pending, envVars,
                   now, nextRand>>

-----------------------------------------------------------------------------
(* ChatBot: sendMessage *)

\* What the user types or picks from the quick topics
ChatInputs ==
    { <<"hello">>, <<Blank>>, <<"Kill Myself", Blank>>, <<"Anxious", "sleep">> }

\* What the classifier answers in the runs of the whole application
Answers ==
    { [kind |-> "reject"],
      [kind |-> "json", value |-> [mood |-> "okay", todos |-> ArrayOf(<<>>)]],
      [kind |-> "json",
       value |-> [mood |-> "good",
                  todos |-> ArrayOf(<<[title |-> "Walk", category |-> "exercise"],
                                      [title |-> "walk", category |-> "exercise"]>>)]],
      [kind |-> "json",
       value |-> [mood |-> "happy",
                  todos |-> ArrayOf(<<[title |-> "Read", category |-> "fun"]>>)]] }

\* What the assistant answers to the reply request
Replies ==
    { [ok |-> TRUE, text |-> <<"I hear you.">>],
      [ok |-> FALSE, message |-> "Failed to fetch"] }

\* onChange of the input (disabled while typing) and the quick topic buttons
SetCurrentMessage(text) ==
    /\ UserTurn
    /\ CountOp
    /\ currentMessage # text
    /\ currentMessage' = text
    /\ last' = [op |-> "setCurrentMessage", before |-> Before]
    /\ UNCHANGED <<storeVars, isTyping, lastError, sm, storage, phase,
                   pending, envVars, now, nextRand>>

\* sendMessage reachable while the typing indicator is on: the input and the
\* button not disabled
SendWhileTyping ==
    /\ UserTurn
    /\ CountOp
    /\ \A i \in 1..Len(chatMessages) :
         chatMessages[i].sender = "user" => chatMessages[i].timestamp < now
    /\ IF TrimText(currentMessage) = <<>>
       THEN /\ last' = [op |-> "sendBlank", before |-> Before]
            /\ UNCHANGED <<storeVars, chatVars, storage>>
       ELSE LET userMessage == [id |-> ToString(now),
                                text |-> TrimText(currentMessage),
                                sender |-> "user", timestamp |-> now]
            IN  /\ chatMessages' = addChatMessage(chatMessages, userMessage)
                /\ \E ok \in WriteOk :
                     /\ storage' = setItem(storage, ChatKey, chatMessages', ok)
                     /\ last' = [op |-> "send", before |-> Before,
                                 text |-> userMessage.text, key |-> ChatKey,
                                 wrote |-> ok]
                /\ currentMessage' = <<>>
                /\ isTyping' = TRUE
                /\ sm' = [pc |-> "analyze", text |-> userMessage.text,
                          userMessage |-> userMessage,
                          habitsSeen |-> habits, messagesSeen |-> chatMessages]
                /\ UNCHANGED <<todayMood, moodHistory, habits, todos,
                               sleepEntries, journalEntries, lastError>>
    /\ UNCHANGED <<phase, pending, envVars, now, nextRand>>

\* sendMessage up to its first await.  The input and the button are disabled
\* while isTyping; a blank message returns at once.  One user does not send
\* two messages within the same millisecond.
Send ==
    /\ UserTurn
    /\ CountOp
    /\ ~isTyping
    /\ \A i \in 1..Len(chatMessages) :
         chatMessages[i].sender = "user" => chatMessages[i].timestamp < now
    /\ IF TrimText(currentMessage) = <<>>
       THEN /\ last' = [op |-> "sendBlank", before |-> Before]
            /\ UNCHANGED <<storeVars, chatVars, storage>>
       ELSE LET userMessage == [id |-> ToString(now),
                                text |-> TrimText(currentMessage),
                                sender |-> "user", timestamp |-> now]
            IN  /\ chatMessages' = addChatMessage(chatMessages, userMessage)
                /\ \E ok \in WriteOk :
                     /\ storage' = setItem(storage, ChatKey, chatMessages', ok)
                     /\ last' = [op |-> "send", before |-> Before,
                                 text |-> userMessage.text, key |-> ChatKey,
                                 wrote |-> ok]
                /\ currentMessage' = <<>>
                /\ isTyping' = TRUE
                /\ sm' = [pc |-> "analyze", text |-> userMessage.text,
                          userMessage |-> userMessage,
                          habitsSeen |-> habits, messagesSeen |-> chatMessages]
                /\ UNCHANGED <<todayMood, moodHistory, habits, todos,
                               sleepEntries, journalEntries, lastError>>
    /\ UNCHANGED <<phase, pending, envVars, now, nextRand>>

\* sendMessage from the classification to the second await: addMoodEntry and
\* addTodos are those of the render that sendMessage was started from
AnalyzeDone(resp) ==
    /\ sm.pc = "analyze"
    /\ UNCHANGED <<ops, latestSleep>>
    /\ \E analysis \in {analyzeUserText(sm.text, apiKey, resp)} :
       LET n == Len(analysis.todos)
           r == addTodos(sm.habitsSeen, todos, habits, analysis.todos, now,
                         nextRand)
       IN  /\ moodHistory' = addMoodEntry(moodHistory, analysis.mood,
                                          "Auto-detected from chat", now)
           /\ todayMood' = setTodayMood(todayMood, analysis.mood)
           /\ IF n > 0
              THEN /\ todos' = r.todos
                   /\ habits' = r.habits
                   /\ nextRand' = nextRand + 2 * n
              ELSE UNCHANGED <<todos, habits, nextRand>>
           /\ completions' = Recount(habits', {})
           /\ last' = [op |-> "analyzed", before |-> Before,
                       text |-> sm.text, resp |-> resp,
                       analysis |-> analysis, seen |-> sm.habitsSeen,
                       preHabits |-> habits, preTodos |-> todos,
                       calls |-> IF n > 0 THEN r.calls ELSE <<>>,
                       requests |-> analyzeRequests(apiKey),
                       preMoods |-> moodHistory]
    /\ sm' = [sm EXCEPT !.pc = "reply"]
    /\ UNCHANGED <<chatMessages, sleepEntries, journalEntries, currentMessage,
                   isTyping, lastError, storage, phase, pending, envVars, now>>

Analyze ==
    IF apiKey THEN \E resp \in Answers : AnalyzeDone(resp)
    ELSE AnalyzeDone([kind |-> "reject"])

\* The error banner left standing by a reply that succeeds
lastErrorKept(prev, reply) ==
    IF ~reply.threw THEN prev
    ELSE IF Falsy(reply.message) THEN "Connection error"
    ELSE reply.message

\* setLastError(null) after the reply, setLastError(err?.message ? ... ) in
\* the catch branch
lastErrorAfter(prev, reply) ==
    IF ~reply.threw THEN Null
    ELSE IF Falsy(reply.message) THEN "Connection error"
    ELSE reply.message

\* sendMessage from the reply to its end: the try branch when generateBotReply
\* returns, the catch branch when it throws, and finally
ReplyDone(answer, k) ==
    /\ sm.pc = "reply"
    /\ UNCHANGED <<ops, latestSleep, completions>>
    /\ LET reply == generateBotReply(sm.text, apiKey, answer)
           botMessage ==
               [id |-> ToString(now + 1),
                text |-> IF reply.threw THEN <<botResponses[k]>>
                         ELSE reply.text,
                sender |-> "bot", timestamp |-> now]
       IN  /\ chatMessages' = addChatMessage(chatMessages, botMessage)
           /\ lastError' = lastErrorAfter(lastError, reply)
           /\ \E ok \in WriteOk :
                /\ storage' = setItem(storage, ChatKey, chatMessages', ok)
                /\ last' = [op |-> "replied", before |-> Before,
                            text |-> sm.text, threw |-> reply.threw,
                            bot |-> botMessage, answer |-> answer,
                            requests |-> reply.requests,
                            sent |-> replyRequests(
                                Append(sm.messagesSeen, sm.userMessage),
                                sm.text, reply.requests),
                            pre |-> chatMessages, key |-> ChatKey,
                            wrote |-> ok]
    /\ isTyping' = FALSE
    /\ sm' = Idle
    /\ UNCHANGED <<todayMood, moodHistory, habits, todos, sleepEntries,
                   journalEntries, currentMessage, phase, pending, envVars,
                   now, nextRand>>

Reply ==
    \/ /\ apiKey
       /\ \E answer \in {a \in Replies : a.ok} : ReplyDone(answer, 1)
    \/ \E k \in 1..Len(botResponses) :
         IF apiKey THEN \E answer \in {a \in Replies : ~a.ok} : ReplyDone(answer, k)
         ELSE ReplyDone([ok |-> FALSE, message |-> Undefined], k)

\* The request sendMessage awaits never settles: neither await has a timeout,
\* so the function stays where it is
Hang ==
    /\ apiKey
    /\ sm.pc \in {"analyze", "reply"}
    /\ sm' = [sm EXCEPT !.pc = "hung"]
    /\ UNCHANGED <<storeVars, currentMessage, isTyping, lastError, storage,
                   phase, pending, envVars, now, nextRand, ops, latestSleep,
                   completions, last>>

-----------------------------------------------------------------------------
(* Sleep log and journal.  Each mutation is followed by the persist effect  *)
(* of its collection.                                                       *)

SleepInputs ==
    [date : SleepDates, bedtime : {"23:00"}, wakeup : {"07:00"},
     durationMinutes : {480}, quality : {"good", "poor"}]

\* Journal.saveEntry: addJournalEntry({ title, content, date }), with no title
\* typed: the title is content.slice(0, 40), the whole of a short content
JournalContents == {"slept well"}

\* Journal.saveEdit passes title and content; the store also takes a mood
JournalUpdates ==
    { [title |-> "Edited", content |-> "rewritten"], [mood |-> "good"] }

\* addSleepEntry undone when the write of the collection fails
AddSleepEntryUndoneOnFailure(entry) ==
    /\ UserTurn
    /\ ops' = ops + 1
    /\ nextRand' = nextRand + 1
    /\ \E ok \in WriteOk :
         /\ sleepEntries' =
               IF ok THEN addSleepEntry(sleepEntries, entry,
                                        RandomId(now, nextRand))
               ELSE sleepEntries
         /\ storage' = setItem(storage, SleepKey, sleepEntries', ok)
         /\ last' = [op |-> "addSleepEntry", before |-> Before,
                     entry |-> entry, pre |-> sleepEntries, key |-> SleepKey,
                     wrote |-> ok]
    /\ UNCHANGED completions
    /\ latestSleep' = [latestSleep EXCEPT
                          ![entry.date] = [logged |-> TRUE, entry |-> entry]]
    /\ UNCHANGED <<todayMood, moodHistory, habits, todos, chatMessages,
                   journalEntries, chatVars, phase, pending, envVars, now>>

AddSleepEntry(entry) ==
    /\ UserTurn
    /\ ops' = ops + 1
    /\ sleepEntries' = addSleepEntry(sleepEntries, entry,
                                     RandomId(now, nextRand))
    /\ nextRand' = nextRand + 1
    /\ \E ok \in WriteOk :
         /\ storage' = setItem(storage, SleepKey, sleepEntries', ok)
         /\ last' = [op |-> "addSleepEntry", before |-> Before,
                     entry |-> entry, pre |-> sleepEntries, key |-> SleepKey,
                     wrote |-> ok]
    /\ UNCHANGED completions
    /\ latestSleep' = [latestSleep EXCEPT
                          ![entry.date] = [logged |-> TRUE, entry |-> entry]]
    /\ UNCHANGED <<todayMood, moodHistory, habits, todos, chatMessages,
                   journalEntries, chatVars, phase, pending, envVars, now>>

AddJournalEntry(content) ==
    /\ UserTurn
    /\ CountOp
    /\ journalEntries' =
          addJournalEntry(journalEntries,
                          [title |-> content, content |-> content,
                           date |-> IsoDate(now)],
                          RandomId(now, nextRand))
    /\ nextRand' = nextRand + 1
    /\ \E ok \in WriteOk :
         /\ storage' = setItem(storage, JournalKey, journalEntries', ok)
         /\ last' = [op |-> "addJournalEntry", before |-> Before,
                     content |-> content, pre |-> journalEntries,
                     key |-> JournalKey, wrote |-> ok]
    /\ UNCHANGED <<todayMood, moodHistory, habits, todos, chatMessages,
                   sleepEntries, chatVars, phase, pending, envVars, now>>

UpdateJournalEntry(id, updatedEntry) ==
    /\ UserTurn
    /\ CountOp
    /\ journalEntries' = updateJournalEntry(journalEntries, id, updatedEntry)
    /\ \E ok \in WriteOk :
         /\ storage' = setItem(storage, JournalKey, journalEntries', ok)
         /\ last' = [op |-> "updateJournalEntry", before |-> Before,
                     id |-> id, entry |-> updatedEntry, pre |-> journalEntries,
                     key |-> JournalKey, wrote |-> ok]
    /\ UNCHANGED <<todayMood, moodHistory, habits, todos, chatMessages,
                   sleepEntries, chatVars, phase, pending, envVars, now,
                   nextRand>>

DeleteJournalEntry(id) ==
    /\ UserTurn
    /\ CountOp
    /\ journalEntries' = deleteJournalEntry(journalEntries, id)
    /\ \E ok \in WriteOk :
         /\ storage' = setItem(storage, JournalKey, journalEntries', ok)
         /\ last' = [op |-> "deleteJournalEntry", before |-> Before,
                     id |-> id, pre |-> journalEntries,
                     key |-> JournalKey, wrote |-> ok]
    /\ UNCHANGED <<todayMood, moodHistory, habits, todos, chatMessages,
                   sleepEntries, chatVars, phase, pending, envVars, now,
                   nextRand>>

\* MoodTracker.handleSubmit: addMoodEntry(selectedMood, note); the note is the
\* text of the note field, empty when nothing was typed
MoodNotes == {"", "rough day"}

AddMoodEntry(mood, note) ==
    /\ UserTurn
    /\ CountOp
    /\ moodHistory' = addMoodEntry(moodHistory, mood, note, now)
    /\ todayMood' = setTodayMood(todayMood, mood)
    /\ last' = [op |-> "addMoodEntry", before |-> Before, mood |-> mood,
                note |-> note]
    /\ UNCHANGED <<habits, todos, chatMessages, sleepEntries, journalEntries,
                   chatVars, storage, phase, pending, envVars, now, nextRand>>

\* setTodayMood(mood) called on the context
SetTodayMood(mood) ==
    /\ UserTurn
    /\ CountOp
    /\ todayMood' = setTodayMood(todayMood, mood)
    /\ last' = [op |-> "setTodayMood", before |-> Before, mood |-> mood]
    /\ UNCHANGED <<moodHistory, habits, todos, chatMessages, sleepEntries,
                   journalEntries, chatVars, storage, phase, pending, envVars,
                   now, nextRand>>

-----------------------------------------------------------------------------
(* Restart: the page is loaded again, later.  The memory is back at its     *)
(* defaults, the store keeps what was written, unless a key was removed or  *)
(* damaged while the application was not running.                           *)

Damage == {Absent, Corrupt, NotArray}

\* A restart that finds the habits of the ended session again
RestartedKeepingHabits(store) ==
    /\ now' = IF now < MaxTime THEN now + 1 ELSE now
    /\ todayMood' = ""
    /\ moodHistory' = initialMoodHistory(now')
    /\ habits' = habits
    /\ todos' = <<>>
    /\ chatMessages' = <<Greeting(now')>>
    /\ sleepEntries' = <<>>
    /\ journalEntries' = <<>>
    /\ phase' = "hydrate"
    /\ pending' = NoPending
    /\ currentMessage' = <<>>
    /\ isTyping' = FALSE
    /\ lastError' = Null
    /\ sm' = Idle
    /\ storage' = store
    /\ latestSleep' = NoSleepLogged
    /\ completions' = completions
    /\ ops' = ops + 1
    /\ last' = [op |-> "restart",
                boot |-> Booted(store, [chat |-> chatMessages,
                                        sleep |-> sleepEntries,
                                        journal |-> journalEntries,
                                        habits |-> habits,
                                        todos |-> todos,
                                        moodHistory |-> moodHistory,
                                        todayMood |-> todayMood])]
    /\ UNCHANGED <<envVars, nextRand>>

Restarted(store) ==
    /\ now' = IF now < MaxTime THEN now + 1 ELSE now
    /\ todayMood' = ""
    /\ moodHistory' = initialMoodHistory(now')
    /\ habits' = <<>>
    /\ todos' = <<>>
    /\ chatMessages' = <<Greeting(now')>>
    /\ sleepEntries' = <<>>
    /\ journalEntries' = <<>>
    /\ phase' = "hydrate"
    /\ pending' = NoPending
    /\ currentMessage' = <<>>
    /\ isTyping' = FALSE
    /\ lastError' = Null
    /\ sm' = Idle
    /\ storage' = store
    /\ latestSleep' = NoSleepLogged
    /\ completions' = NoCompletions
    /\ ops' = ops + 1
    /\ last' = [op |-> "restart",
                boot |-> Booted(store, [chat |-> chatMessages,
                                        sleep |-> sleepEntries,
                                        journal |-> journalEntries,
                                        habits |-> habits,
                                        todos |-> todos,
                                        moodHistory |-> moodHistory,
                                        todayMood |-> todayMood])]
    /\ UNCHANGED <<envVars, nextRand>>

\* The page is loaded again on the store as the session left it
Reload ==
    /\ phase = "ready"
    /\ ops < MaxOps
    /\ Restarted(storage)

Restart ==
    \/ Reload
    \/ /\ phase = "ready"
       /\ ops < MaxOps
       /\ \E k \in Keys, v \in Damage : Restarted([storage EXCEPT ![k] = v])

-----------------------------------------------------------------------------
(* The running application: mount, then the habit tracker and the chat *)

Next ==
    \/ MountHydrate
    \/ MountPersist
    \/ MountRerender
    \/ Tick
    \/ \E name \in HabitNames : HandleAddHabit(name)
    \/ \E id \in Ids(habits) \cup {NoSuchId} : ToggleHabit(id)
    \/ \E id \in Ids(habits) \cup {NoSuchId} : DeleteHabit(id)
    \/ \E text \in ChatInputs : SetCurrentMessage(text)
    \/ Send
    \/ Analyze
    \/ Reply

Spec == Init /\ [][Next]_vars

-----------------------------------------------------------------------------
(* Claims on the habit and todo collections *)

\* C1: in every reachable state no two habits have names that are equal
\* case-insensitively.
C1_UniqueHabitNames ==
    \A i, j \in 1..Len(habits) :
        i # j => ToLowerCase(habits[i].name) # ToLowerCase(habits[j].name)

\* A habit or todo without its identifier
Fields(rec, keys) == [k \in keys |-> rec[k]]
HabitKeys == {"name", "category", "completed", "streak", "dateCompleted"}
TodoKeys == {"title", "category", "completed"}

\* C5: toggleHabit(id) flips the completion flag of the matching habit; from
\* incomplete the streak grows by 1 and the completion date becomes the current
\* date, from complete the streak stays and the date is cleared; every other
\* habit, and every other field, is unchanged.
C5_ToggleHabit ==
    last.op = "toggleHabit" =>
        /\ Len(habits) = Len(last.pre)
        /\ \A i \in 1..Len(habits) :
             LET old == last.pre[i]
                 new == habits[i]
             IN  IF old.id # last.id THEN new = old
                 ELSE /\ new.completed = ~old.completed
                      /\ new.id = old.id
                      /\ new.name = old.name
                      /\ new.category = old.category
                      /\ ~old.completed =>
                            /\ new.streak = old.streak + 1
                            /\ new.dateCompleted = IsoDate(last.at)
                      /\ old.completed =>
                            /\ new.streak = old.streak
                            /\ new.dateCompleted = Undefined

\* C5 witness: a completed habit with a streak has just been toggled back, next
\* to another habit
C5_Witness ==
    /\ last.op = "toggleHabit"
    /\ Len(last.pre) >= 2
    /\ \E i \in 1..Len(last.pre) :
         /\ last.pre[i].id = last.id
         /\ last.pre[i].completed
         /\ last.pre[i].streak = 1
         /\ ~habits[i].completed

\* The habits a list of items asks for, given the names that exist already
RECURSIVE ExpectedHabits(_, _)
ExpectedHabits(existing, items) ==
    IF items = <<>> THEN <<>>
    ELSE (IF NameExists(existing, Head(items).title) THEN <<>>
          ELSE <<[name |-> Head(items).title,
                  category |-> Head(items).category, completed |-> FALSE,
                  streak |-> 0, dateCompleted |-> Undefined]>>)
         \o ExpectedHabits(existing, Tail(items))

\* C6: addTodos(items) prepends one todo per item, in input order and not
\* completed, and adds one habit (not completed, streak 0) for every item whose
\* title matches no existing habit name, and none for the other items.
C6_AddTodos ==
    (last.op = "analyzed" /\ Len(last.analysis.todos) > 0) =>
        LET items == last.analysis.todos
            n == Len(items)
        IN  /\ Len(todos) = n + Len(last.preTodos)
            /\ \A i \in 1..n :
                 Fields(todos[i], TodoKeys)
                    = [title |-> items[i].title,
                       category |-> items[i].category, completed |-> FALSE]
            /\ SubSeq(todos, n + 1, Len(todos)) = last.preTodos
            /\ [i \in 1..Len(habits) |-> Fields(habits[i], HabitKeys)]
                 = [i \in 1..Len(last.preHabits) |->
                        Fields(last.preHabits[i], HabitKeys)]
                   \o ExpectedHabits(last.preHabits, items)

\* One call of addHabit: with a habit of that name in the collection nothing
\* changes, otherwise one habit (not completed, streak 0) is appended
AddHabitContract(before, after, name, category) ==
    IF NameExists(before, name) THEN after = before
    ELSE /\ Len(after) = Len(before) + 1
         /\ SubSeq(after, 1, Len(before)) = before
         /\ Fields(after[Len(after)], HabitKeys)
              = [name |-> name, category |-> category, completed |-> FALSE,
                 streak |-> 0, dateCompleted |-> Undefined]

\* C7: addHabit(name, category) leaves the collection unchanged when a habit of
\* that name (case-insensitively) exists, and otherwise appends one habit with
\* completion false and streak 0; for the calls of the habit tracker and for
\* each call that addTodos makes.
C7_AddHabit ==
    /\ last.op = "addHabit" =>
          AddHabitContract(last.pre, habits, last.name, "health")
    /\ last.op = "analyzed" =>
          \A i \in 1..Len(last.calls) :
             AddHabitContract(last.calls[i].before, last.calls[i].after,
                              last.calls[i].name, last.calls[i].category)

-----------------------------------------------------------------------------
(* Claims on the chat *)

\* C2: the bot message appended for a user message that matches the crisis
\* patterns starts with the safety preamble, whether the reply request
\* succeeded or a canned reply was substituted.
C2_CrisisPreamble ==
    (last.op = "replied" /\ RegexTestI(CrisisWords, last.text)) =>
        Head(last.bot.text) = SafetyPreamble

Distinct(coll) ==
    \A i, j \in 1..Len(coll) : i # j => coll[i].id # coll[j].id

\* C8: identifiers are pairwise distinct within each collection.
C8_UniqueIds ==
    /\ Distinct(habits)
    /\ Distinct(todos)
    /\ Distinct(chatMessages)
    /\ Distinct(sleepEntries)
    /\ Distinct(journalEntries)

\* C9: the result of analyzeUserText has a mood of the five labels and between
\* 3 and 5 action items, each with a category of the five categories, and so
\* have the mood entry and the todos recorded from it.
C9_AnalysisInEnumerations ==
    last.op = "analyzed" =>
        /\ last.analysis.mood \in Moods
        /\ Len(last.analysis.todos) \in 3..5
        /\ \A i \in 1..Len(last.analysis.todos) :
             last.analysis.todos[i].category \in Categories
        /\ moodHistory[1].mood \in Moods
        /\ \A i \in 1..Len(todos) : todos[i].category \in Categories
        /\ \A i \in 1..Len(habits) : habits[i].category \in Categories

\* C13: when the reply to a sent message fails (no credential, or the call
\* rejects) sendMessage ends normally having appended exactly one bot message,
\* whose text is one of the seven canned replies; without the credential no
\* request is made for the reply nor for the classification, and the
\* classification is that of fallbackAnalyze.
C13_CannedReplyOnFailure ==
    /\ (last.op = "replied" /\ (~apiKey \/ ~last.answer.ok)) =>
          /\ chatMessages = Append(last.pre, last.bot)
          /\ last.bot.sender = "bot"
          /\ \E k \in 1..7 : last.bot.text = <<botResponses[k]>>
          /\ sm = Idle
          /\ ~isTyping
    /\ (last.op = "replied" /\ ~apiKey) => last.requests = 0
    /\ (last.op = "analyzed" /\ ~apiKey) =>
          /\ last.requests = 0
          /\ last.analysis = fallbackAnalyze(last.text)

\* C13 witness: without the credential a message with keywords got the last
\* canned reply
C13_Witness ==
    /\ last.op = "replied"
    /\ ~apiKey
    /\ last.text = <<"Anxious", "sleep">>
    /\ last.bot.text = <<botResponses[7]>>
    /\ todayMood = "poor"
    /\ Len(chatMessages) = 3

\* C13 witness for the rejected call: the credential is there and the reply
\* request rejects
C13_WitnessRejected ==
    /\ last.op = "replied"
    /\ apiKey
    /\ ~last.answer.ok
    /\ lastError = "Failed to fetch"

-----------------------------------------------------------------------------
(* analyzeUserText on its own: every text and classifier response of the    *)
(* sets below                                                               *)

MaxWords == 2      \* fragments in a text
MaxItems == 2      \* elements of a todos array (one longer array is added)

RECURSIVE SeqsUpTo(_, _)
SeqsUpTo(S, n) ==
    IF n = 0 THEN {<<>>}
    ELSE LET shorter == SeqsUpTo(S, n - 1)
         IN  shorter \cup {Append(s, x) : s \in shorter, x \in S}

Words == {"hello", "Anxious", "sleep", "Happy", "awful", "good", "sad",
          "angry"}
\* sendMessage passes a trimmed text that is not empty
Texts == SeqsUpTo(Words, MaxWords) \ {<<>>}

ResponseItems ==
    { [title |-> "Walk", category |-> "exercise"],
      [title |-> " Walk ", category |-> "fun"],
      [title |-> "  ", category |-> "health"],
      [title |-> "", category |-> ""],
      [category |-> "health"],
      [title |-> "Read"],
      JsonNull }

\* Six elements: one more than analyzeUserText keeps
SixItems ==
    [i \in 1..6 |-> [title |-> "Read", category |-> "learning"]]

ResponseTodos ==
    {ArrayOf(items) : items \in SeqsUpTo(ResponseItems, MaxItems) \cup {SixItems}}
    \cup {NoArray}

Responses ==
    { [kind |-> "reject"], [kind |-> "nojson"], [kind |-> "badjson"] }
    \cup { [kind |-> "json", value |-> [mood |-> m, todos |-> t]] :
              m \in {"good", "happy", ""}, t \in ResponseTodos }
    \cup { [kind |-> "json", value |-> [todos |-> t]] : t \in ResponseTodos }
    \cup { [kind |-> "json", value |-> [mood |-> "poor"]] }

InitAnalyze ==
    /\ InitMemory
    /\ storage = NothingStored
    /\ apiKey \in BOOLEAN
    /\ storageFull = FALSE
    /\ last \in {[op |-> "input", text |-> t, resp |-> r] :
                    t \in Texts, r \in Responses}

CallAnalyzeUserText ==
    /\ last.op = "input"
    /\ last' = [op |-> "analyzeUserText", text |-> last.text,
                resp |-> last.resp,
                fallback |-> fallbackAnalyze(last.text),
                result |-> analyzeUserText(last.text, apiKey, last.resp)]
    /\ UNCHANGED <<storeVars, chatVars, storage, phase, pending, envVars,
                   now, nextRand, ops, latestSleep, completions>>

SpecAnalyze == InitAnalyze /\ [][CallAnalyzeUserText]_vars

\* The request failed: no credential, a rejected call, or a text that is not
\* a parsable object with a mood and a todos array
RequestFailed(key, resp) ==
    \/ ~key
    \/ resp.kind # "json"
    \/ Get(resp.value, "mood") \in {Undefined, ""}
    \/ "todos" \notin DOMAIN resp.value
    \/ ~resp.value.todos.array

\* The elements of the response that analyzeUserText looks at
Looked(resp) ==
    SubSeq(resp.value.todos.items, 1,
           IF Len(resp.value.todos.items) < 5
           THEN Len(resp.value.todos.items) ELSE 5)

HasTitle(item) ==
    ~IsNull(item) /\ (("title" \in DOMAIN item) => Trim(item.title) # "")

\* The request succeeded and none of the elements looked at has a title
NoValidItem(key, resp) ==
    /\ ~RequestFailed(key, resp)
    /\ \A i \in 1..Len(Looked(resp)) : ~HasTitle(Looked(resp)[i])

\* C10 as stated: when the request fails or yields no item with a non-empty
\* title, analyzeUserText returns exactly fallbackAnalyze of the message.
C10_FallbackExactly ==
    (/\ last.op = "analyzeUserText"
     /\ RequestFailed(apiKey, last.resp) \/ NoValidItem(apiKey, last.resp))
        => last.result = fallbackAnalyze(last.text)

\* C10 amended: when the request fails, or an element looked at is null,
\* analyzeUserText returns exactly fallbackAnalyze of the message; when the
\* request succeeds and yields no item with a non-empty title it returns the
\* action items of fallbackAnalyze with the mood of the response; it returns a
\* result in every case.
C10_FallbackTodos ==
    last.op = "analyzeUserText" =>
        LET fb == fallbackAnalyze(last.text) IN
        /\ {"mood", "todos"} \subseteq DOMAIN last.result
        /\ RequestFailed(apiKey, last.resp) => last.result = fb
        /\ NoValidItem(apiKey, last.resp) =>
             /\ last.result.todos = fb.todos
             /\ IF \E i \in 1..Len(Looked(last.resp)) :
                      IsNull(Looked(last.resp)[i])
                THEN last.result.mood = fb.mood
                ELSE last.result.mood = last.resp.value.mood

\* C10 witness: a response with a mood and only blank titles has been
\* analysed, for a text whose local mood differs
C10_Witness ==
    /\ last.op = "analyzeUserText"
    /\ NoValidItem(apiKey, last.resp)
    /\ Len(Looked(last.resp)) > 0
    /\ \A i \in 1..Len(Looked(last.resp)) : ~IsNull(Looked(last.resp)[i])
    /\ last.result.mood # fallbackAnalyze(last.text).mood
    /\ Len(last.result.todos) = 5

\* C11: fallbackAnalyze returns, for every text, a mood of the five labels
\* and from one to five action items with pairwise distinct titles.
C11_FallbackShape ==
    last.op = "analyzeUserText" =>
        LET fb == last.fallback IN
        /\ fb.mood \in Moods
        /\ Len(fb.todos) \in 1..5
        /\ \A i, j \in 1..Len(fb.todos) :
              i # j => fb.todos[i].title # fb.todos[j].title

\* C11 witness: a text with a keyword whose rule item is also a default item
C11_Witness ==
    /\ last.op = "analyzeUserText"
    /\ RegexTestI({"anxious"}, last.text)
    /\ Len(last.fallback.todos) = 5
    /\ last.fallback.todos[1].title = defaults[4].title

Breathing == [title |-> "5-minute breathing", category |-> "mindfulness"]
WindDown == [title |-> "Wind-down routine before bed", category |-> "health"]

\* C12: the mood of fallbackAnalyze is that of the first keyword group, in the
\* order excellent, good, poor, awful, with a keyword in the text, else okay;
\* an anxious/stressed/overwhelmed keyword gives the breathing item and a
\* tired/sleep/insomnia keyword the wind-down item, ahead of every default
\* item; with both and no excellent or good keyword the mood is poor and the
\* list holds both items.
C12_FallbackRules ==
    last.op = "analyzeUserText" =>
        LET fb == last.fallback
            Has(ws) == RegexTestI(ws, last.text)
            anxious == Has({"anxious", "stressed", "overwhelmed"})
            sleepy == Has({"tired", "sleep", "insomnia"})
        IN  /\ fb.mood = CASE Has(ExcellentWords) -> "excellent"
                            [] ~Has(ExcellentWords) /\ Has(GoodWords) -> "good"
                            [] ~Has(ExcellentWords \cup GoodWords)
                                 /\ Has(PoorWords) -> "poor"
                            [] ~Has(ExcellentWords \cup GoodWords \cup PoorWords)
                                 /\ Has(AwfulWords) -> "awful"
                            [] OTHER -> "okay"
            /\ anxious => fb.todos[1] = Breathing
            /\ sleepy => fb.todos[IF anxious THEN 2 ELSE 1] = WindDown
            /\ (anxious /\ sleepy /\ ~Has(ExcellentWords \cup GoodWords)) =>
                  /\ fb.mood = "poor"
                  /\ {Breathing, WindDown} \subseteq Range(fb.todos)

\* C12 witness: a text with the keywords anxious and sleep has been analysed
C12_Witness ==
    /\ last.op = "analyzeUserText"
    /\ last.text = <<"Anxious", "sleep">>
    /\ last.fallback.mood = "poor"
    /\ last.fallback.todos[2] = WindDown

-----------------------------------------------------------------------------
(* The sleep log and the journal across restarts, with a store whose writes *)
(* can fail                                                                 *)

InitPersist ==
    /\ InitMemory
    /\ storage = NothingStored
    /\ apiKey = FALSE
    /\ storageFull \in BOOLEAN
    /\ last = [op |-> "start", boot |-> Booted(NothingStored, NoPrior)]

NextPersist ==
    \/ MountHydrate
    \/ MountPersist
    \/ MountRerender
    \/ \E entry \in SleepInputs : AddSleepEntry(entry)
    \/ \E content \in JournalContents : AddJournalEntry(content)
    \/ \E id \in Ids(journalEntries) \cup {NoSuchId}, u \in JournalUpdates :
          UpdateJournalEntry(id, u)
    \/ \E id \in Ids(journalEntries) \cup {NoSuchId} : DeleteJournalEntry(id)
    \/ Restart

SpecPersist == InitPersist /\ [][NextPersist]_vars

JournalKeys == {"id", "title", "content", "date", "mood"}
SleepKeys == {"date", "bedtime", "wakeup", "durationMinutes", "quality"}

\* Two collections with the same entries in the same order, read key by key
SameEntries(a, b, keys) ==
    /\ Len(a) = Len(b)
    /\ \A i \in 1..Len(a) : \A k \in keys : Get(a[i], k) = Get(b[i], k)

\* C3: when the journal collection J of the ended session is what the journal
\* key holds at the start, the mount ends with the journal equal to J; when the
\* key is absent or its value does not decode, it ends with the empty journal.
C3_JournalRoundTrip ==
    last.op = "mounted" =>
        LET J == last.boot.prior.journal
            stored == last.boot.stored[JournalKey]
        IN  /\ stored = Stringify(J) =>
                 SameEntries(journalEntries, J, JournalKeys)
            /\ stored.kind \in {"absent", "corrupt"} => journalEntries = <<>>

\* C3 witness: a journal of two entries, one of them edited, is back in memory
\* after a restart
C3_Witness ==
    /\ last.op = "mounted"
    /\ Len(last.boot.prior.journal) = 2
    /\ last.boot.stored[JournalKey] = Stringify(last.boot.prior.journal)
    /\ \E i \in 1..2 : Get(last.boot.prior.journal[i], "mood") = "good"
    /\ Len(journalEntries) = 2

\* C3 witness for the damaged store: a session with a journal entry restarts
\* on a journal key that does not decode
C3_WitnessCorrupt ==
    /\ last.op = "mounted"
    /\ Len(last.boot.prior.journal) > 0
    /\ last.boot.stored[JournalKey].kind = "corrupt"

\* C4: the sleep collection holds at most one entry per wake date; the entry of
\* a date logged in this session carries the values of the last addSleepEntry
\* for that date; right after a call the new entry is at the head and the
\* entries of other dates follow, unchanged and in their order.
C4_SleepReplaceByDate ==
    /\ \A i, j \in 1..Len(sleepEntries) :
          i # j => sleepEntries[i].date # sleepEntries[j].date
    /\ phase = "ready" =>
          \A d \in SleepDates :
             latestSleep[d].logged =>
                \E i \in 1..Len(sleepEntries) :
                   /\ sleepEntries[i].date = d
                   /\ \A k \in SleepKeys :
                         sleepEntries[i][k] = latestSleep[d].entry[k]
    /\ last.op = "addSleepEntry" =>
          LET OtherDate(e) == e.date # last.entry.date
          IN  /\ \A k \in SleepKeys : sleepEntries[1][k] = last.entry[k]
              /\ Tail(sleepEntries) = SelectSeq(last.pre, OtherDate)

\* C4 witness: a date is logged a second time with other values, with the
\* entry of another date in the collection
C4_Witness ==
    /\ last.op = "addSleepEntry"
    /\ Len(last.pre) = 2
    /\ \E i \in 1..2 :
          /\ last.pre[i].date = last.entry.date
          /\ last.pre[i].quality # last.entry.quality
    /\ Len(sleepEntries) = 2

\* The collection in memory that belongs to a key, and its default
Collection(key) ==
    CASE key = ChatKey -> chatMessages
      [] key = SleepKey -> sleepEntries
      [] key = JournalKey -> journalEntries

Default(key) == IF key = ChatKey THEN <<Greeting(now)>> ELSE <<>>

\* C14: after the mount, a collection whose key was absent, did not decode or
\* decoded to something that is not an array has its default (the greeting
\* for the chat, empty for sleep and journal); a collection whose key held an
\* array has that array, whatever the other two keys held.
C14_HydrateFailureSilent ==
    last.op = "mounted" =>
        \A k \in Keys :
           LET stored == last.boot.stored[k] IN
           /\ stored.kind \in {"absent", "corrupt", "notarray"} =>
                 Collection(k) = Default(k)
           /\ (stored.kind = "array"
               /\ Len(stored.val) >= (IF k = ChatKey THEN 1 ELSE 0)) =>
                 Collection(k) = stored.val

\* C14 witness: the sleep key does not decode, the journal key holds an entry
\* and the chat key the greeting of the earlier session
C14_Witness ==
    /\ last.op = "mounted"
    /\ last.boot.stored[SleepKey].kind = "corrupt"
    /\ Len(last.boot.prior.sleep) > 0
    /\ sleepEntries = <<>>
    /\ Len(journalEntries) > 0
    /\ chatMessages # <<Greeting(now)>>

-----------------------------------------------------------------------------
(* The whole provider in one session after another: mood, habits, chat,     *)
(* sleep log and journal, without the credential, with a store whose writes *)
(* can fail                                                                 *)

InitSession ==
    /\ InitMemory
    /\ storage = NothingStored
    /\ apiKey = FALSE
    /\ storageFull \in BOOLEAN
    /\ last = [op |-> "start", boot |-> Booted(NothingStored, NoPrior)]

NextSession ==
    \/ MountHydrate
    \/ MountPersist
    \/ MountRerender
    \/ HandleAddHabit("Walk")
    \/ \E id \in Ids(habits) \cup {NoSuchId} : ToggleHabit(id)
    \/ \E id \in Ids(habits) \cup {NoSuchId} : DeleteHabit(id)
    \/ \E mood \in {"okay", "awful"}, note \in MoodNotes :
          AddMoodEntry(mood, note)
    \/ SetTodayMood("excellent")
    \/ SetCurrentMessage(<<"Anxious", "sleep">>)
    \/ Send
    \/ Analyze
    \/ ReplyDone([ok |-> FALSE, message |-> Undefined], 1)
    \/ \E entry \in {e \in SleepInputs : e.quality = "good"} :
          AddSleepEntry(entry)
    \/ AddJournalEntry("slept well")
    \/ \E id \in Ids(journalEntries) \cup {NoSuchId} :
          UpdateJournalEntry(id, [mood |-> "good"])
    \/ \E id \in Ids(journalEntries) \cup {NoSuchId} : DeleteJournalEntry(id)
    \/ Reload

SpecSession == InitSession /\ [][NextSession]_vars

\* The operations that change the chat, the sleep log or the journal
MutationOps ==
    {"send", "replied", "addSleepEntry", "addJournalEntry",
     "updateJournalEntry", "deleteJournalEntry"}

\* C15: after a mutation of the chat, the sleep log or the journal whose write
\* succeeded, the key of that collection holds the serialization of the whole
\* collection now in memory; the other two keys hold what they held before.
C15_PersistAfterMutation ==
    last.op \in MutationOps =>
        /\ last.wrote => storage[last.key] = Stringify(Collection(last.key))
        /\ \A k \in Keys \ {last.key} : storage[k] = last.before.storage[k]

\* C15 witness: an edit of one of two journal entries has been written, with a
\* sleep entry under the sleep key
C15_Witness ==
    /\ last.op = "updateJournalEntry"
    /\ last.wrote
    /\ last.id \in Ids(last.pre)
    /\ Len(storage[JournalKey].val) = 2
    /\ storage[SleepKey].kind = "array"
    /\ Len(storage[SleepKey].val) = 1

\* The collection of a key as the last operation found it
CollectionBefore(key) ==
    CASE key = ChatKey -> last.before.chatMessages
      [] key = SleepKey -> last.before.sleepEntries
      [] key = JournalKey -> last.before.journalEntries

\* The last operation has had its effect on the collection in memory
Mutated ==
    CASE last.op = "send" ->
            /\ Len(chatMessages) = Len(last.before.chatMessages) + 1
            /\ chatMessages[Len(chatMessages)].text = last.text
            /\ chatMessages[Len(chatMessages)].sender = "user"
      [] last.op = "replied" ->
            chatMessages = Append(last.before.chatMessages, last.bot)
      [] last.op = "addSleepEntry" ->
            /\ sleepEntries # <<>>
            /\ \A k \in SleepKeys : sleepEntries[1][k] = last.entry[k]
      [] last.op = "addJournalEntry" ->
            /\ Len(journalEntries) = Len(last.before.journalEntries) + 1
            /\ journalEntries[1].content = last.content
            /\ Tail(journalEntries) = last.before.journalEntries
      [] last.op = "updateJournalEntry" ->
            /\ Len(journalEntries) = Len(last.before.journalEntries)
            /\ \A i \in 1..Len(journalEntries) :
                  journalEntries[i].id = last.id =>
                     \A k \in DOMAIN last.entry :
                        journalEntries[i][k] = last.entry[k]
      [] last.op = "deleteJournalEntry" ->
            /\ last.id \notin Ids(journalEntries)
            /\ Len(journalEntries) =
                  Len(last.before.journalEntries)
                  - (IF last.id \in Ids(last.before.journalEntries)
                     THEN 1 ELSE 0)

\* C16: when the write of a mutation fails the operation still ends, the
\* collection in memory has the mutated value and the application is ready for
\* the next operation; a later mutation whose write succeeds writes the whole
\* collection, the entries of the failed writes included.
C16_WriteFailureIgnored ==
    last.op \in MutationOps =>
        /\ ~last.wrote => Mutated /\ phase = "ready"
        /\ (/\ last.wrote
            /\ last.before.storage[last.key]
                  # Stringify(CollectionBefore(last.key))) =>
              /\ Mutated
              /\ storage[last.key] = Stringify(Collection(last.key))

\* C16 witness: the writes of two sleep entries failed one after the other;
\* both entries are in memory and the key still holds the empty collection
C16_Witness ==
    /\ last.op = "addSleepEntry"
    /\ ~last.wrote
    /\ Len(sleepEntries) = 2
    /\ storage[SleepKey] = Stringify(<<>>)

\* C16 witness for the later write: an entry whose write failed reaches the
\* store with the next mutation
C16_WitnessLater ==
    /\ last.op = "addSleepEntry"
    /\ last.wrote
    /\ last.before.storage[SleepKey] = Stringify(<<>>)
    /\ Len(last.before.sleepEntries) = 1
    /\ Len(storage[SleepKey].val) = 2

\* The collections in memory are as the last operation found them, but for
\* those of the set `changed`
SameMemory(changed) ==
    /\ "todayMood" \in changed \/ todayMood = last.before.todayMood
    /\ "moodHistory" \in changed \/ moodHistory = last.before.moodHistory
    /\ "habits" \in changed \/ habits = last.before.habits
    /\ "todos" \in changed \/ todos = last.before.todos
    /\ "chatMessages" \in changed \/ chatMessages = last.before.chatMessages
    /\ "sleepEntries" \in changed \/ sleepEntries = last.before.sleepEntries
    /\ "journalEntries" \in changed
          \/ journalEntries = last.before.journalEntries

\* C17: from a restart to the end of its mount, whatever the ended session
\* did, there are no habits and no todos, the mood indicator is unset and the
\* mood history is the seeded entry alone; an operation on mood, habits or
\* todos leaves the store as it was.
C17_MoodAndHabitsReset ==
    /\ last.op \in {"restart", "hydrate", "persist", "mounted"} =>
          /\ habits = <<>>
          /\ todos = <<>>
          /\ todayMood = ""
          /\ Len(moodHistory) = 1
          /\ moodHistory[1].note = "Had a productive day at work"
          /\ moodHistory[1].mood = "good"
    /\ last.op \in {"addHabit", "toggleHabit", "deleteHabit", "addMoodEntry",
                    "setTodayMood", "analyzed"} =>
          storage = last.before.storage

\* C17 witness: a session that had habits, todos, a mood and recorded mood
\* entries has been restarted and mounted
C17_Witness ==
    /\ last.op = "mounted"
    /\ last.boot.prior.habits # <<>>
    /\ last.boot.prior.todos # <<>>
    /\ last.boot.prior.todayMood = "poor"
    /\ Len(last.boot.prior.moodHistory) = 2
    /\ habits = <<>>

\* C18: toggleHabit, deleteHabit, updateJournalEntry and deleteJournalEntry
\* with an identifier of no element leave every collection as it was.
C18_UnknownIdIgnored ==
    (/\ last.op \in {"toggleHabit", "deleteHabit", "updateJournalEntry",
                     "deleteJournalEntry"}
     /\ last.id \notin Ids(last.pre)) => SameMemory({})

\* C18 witness: deleteHabit with an unknown identifier, with a habit and a
\* journal entry in memory
C18_Witness ==
    /\ last.op = "deleteHabit"
    /\ last.id = NoSuchId
    /\ Len(habits) = 1
    /\ Len(journalEntries) = 1

\* C19: addMoodEntry(mood, note) puts one entry with that mood and note at the
\* head of the mood history, the earlier entries behind it in their order,
\* and sets the indicator to mood; setTodayMood(mood) sets the indicator and
\* leaves the history; neither changes another collection.
C19_MoodOperations ==
    /\ last.op = "addMoodEntry" =>
          /\ moodHistory[1].mood = last.mood
          /\ moodHistory[1].note = last.note
          /\ Tail(moodHistory) = last.before.moodHistory
          /\ todayMood = last.mood
          /\ SameMemory({"todayMood", "moodHistory"})
    /\ last.op = "analyzed" =>
          /\ moodHistory[1].mood = last.analysis.mood
          /\ moodHistory[1].note = "Auto-detected from chat"
          /\ Tail(moodHistory) = last.before.moodHistory
          /\ todayMood = last.analysis.mood
    /\ last.op = "setTodayMood" =>
          /\ todayMood = last.mood
          /\ SameMemory({"todayMood"})

\* C19 witness: a second mood entry has been recorded, with a note, over an
\* indicator that setTodayMood had set
C19_Witness ==
    /\ last.op = "addMoodEntry"
    /\ last.note = "rough day"
    /\ last.before.todayMood = "excellent"
    /\ Len(moodHistory) = 3
    /\ habits # <<>>

\* C20: an operation of the session leaves the messages it found at the head
\* of the transcript, in their order; after the greeting the transcript is a
\* user message, the bot message for it, a user message, and so on, with the
\* last user message unanswered exactly while its sendMessage is running;
\* the timestamps never decrease along the transcript.
C20_ChatAppendOnly ==
    LET n == Len(chatMessages) IN
    /\ "before" \in DOMAIN last =>
          /\ Len(last.before.chatMessages) <= n
          /\ SubSeq(chatMessages, 1, Len(last.before.chatMessages))
                = last.before.chatMessages
    /\ chatMessages[1].sender = "bot"
    /\ \A i \in 2..n :
          chatMessages[i].sender = (IF i % 2 = 0 THEN "user" ELSE "bot")
    /\ IF sm.pc = "idle" THEN n % 2 = 1
       ELSE n % 2 = 0 /\ chatMessages[n].text = sm.text
    /\ last.op = "replied" =>
          /\ chatMessages[n] = last.bot
          /\ chatMessages[n - 1].text = last.text
    /\ \A i, j \in 1..n :
          i < j => chatMessages[i].timestamp <= chatMessages[j].timestamp

\* C20 witness: the second of two messages has got its reply from the
\* assistant, other handlers having run in between
C20_Witness ==
    /\ last.op = "replied"
    /\ apiKey
    /\ Len(chatMessages) = 5
    /\ chatMessages[2].text # chatMessages[4].text
    /\ chatMessages[2].timestamp < chatMessages[4].timestamp

-----------------------------------------------------------------------------
(* The chat with an assistant that answers, rejects or never answers.  A    *)
(* request that settles resumes sendMessage: the steps after an await are   *)
(* taken once they can be.                                                  *)

NextLive ==
    \/ MountHydrate
    \/ MountPersist
    \/ MountRerender
    \/ \E text \in {<<"hello">>, <<Blank>>} : SetCurrentMessage(text)
    \/ Send
    \/ Analyze
    \/ Reply
    \/ Hang

SpecLive ==
    /\ Init
    /\ [][NextLive]_vars
    /\ WF_vars(MountHydrate) /\ WF_vars(MountPersist) /\ WF_vars(MountRerender)
    /\ WF_vars(Analyze)
    /\ WF_vars(Reply)

\* C21: every sendMessage that has started ends, with the typing indicator
\* back to false, whatever the assistant does with the two requests.
C21_SendCompletes ==
    (sm.pc # "idle") ~> (sm.pc = "idle" /\ ~isTyping)

-----------------------------------------------------------------------------
(* Claims on the chat and the store while a request is pending *)

\* C22: when a habit named N was added while sendMessage was waiting for the
\* assistant, and the addTodos call that sendMessage then makes has an item
\* titled N (case-insensitively), the duplicate check sees that habit and the
\* collection does not end with two habits named N.
C22_NoRaceOnHabitNames ==
    last.op = "analyzed" =>
        \A i \in 1..Len(last.analysis.todos) :
            LET N == last.analysis.todos[i].title
                named == {j \in 1..Len(habits) :
                             ToLowerCase(habits[j].name) = ToLowerCase(N)}
            IN  (NameExists(last.preHabits, N) /\ ~NameExists(last.seen, N))
                    => Cardinality(named) = 1

\* The transcript as the assistant is given it: role and text of each message
\* from the first user message on
Transcript(messages) ==
    LET users == {i \in 1..Len(messages) : messages[i].sender = "user"}
        first == IF users = {} THEN Len(messages) + 1
                 ELSE CHOOSE i \in users : \A j \in users : i <= j
    IN  [i \in 1..(Len(messages) + 1 - first) |->
            [role |-> IF messages[first + i - 1].sender = "user" THEN "user"
                      ELSE "model",
             text |-> messages[first + i - 1].text]]

\* C23: for every reply request the history is the transcript that precedes
\* the new user message, cut to start at the first user message, and the new
\* user message is submitted once, as the message and not also as the last
\* element of the history.
C23_HistoryPrecedesMessage ==
    last.op = "replied" =>
        \A i \in 1..Len(last.sent) :
            LET q == last.sent[i]
                whole == last.before.chatMessages
                preceding == SubSeq(whole, 1, Len(whole) - 1)
            IN  /\ q.message = last.text
                /\ q.history = Transcript(preceding)
                /\ q.history = <<>>
                   \/ q.history[Len(q.history)]
                        # [role |-> "user", text |-> q.message]

-----------------------------------------------------------------------------
(* Start on a store that something else than this version of the provider   *)
(* may have written: each key absent, undecodable, not an array, an empty   *)
(* array, the collection of an earlier session, or an array of records of   *)
(* another shape                                                            *)

EarlierCollection(key) ==
    CASE key = ChatKey ->
            <<Greeting(0),
              [id |-> "0", text |-> <<"hello">>, sender |-> "user",
               timestamp |-> 0]>>
      [] key = SleepKey ->
            addSleepEntry(<<>>, [date |-> "2026-01-01", bedtime |-> "23:00",
                                 wakeup |-> "07:00", durationMinutes |-> 480,
                                 quality |-> "good"], RandomId(0, 0))
      [] key = JournalKey ->
            addJournalEntry(<<>>, [title |-> "slept well",
                                   content |-> "slept well",
                                   date |-> IsoDate(0), mood |-> Undefined],
                            RandomId(0, 1))

\* Records without identifier and date, as another application would store
OtherShape == <<[title |-> "x"]>>

StoredAtStart(key) ==
    << Absent, Corrupt, NotArray, [kind |-> "array", val |-> <<>>],
       Stringify(EarlierCollection(key)),
       [kind |-> "array", val |-> OtherShape] >>

InitHydrate ==
    /\ InitMemory
    /\ apiKey = FALSE
    /\ storageFull \in BOOLEAN
    /\ \E c \in [Keys -> 1..Len(StoredAtStart(ChatKey))] :
         /\ storage = [k \in Keys |-> StoredAtStart(k)[c[k]]]
         /\ last = [op |-> "start", boot |-> Booted(storage, NoPrior)]

NextHydrate ==
    \/ MountHydrate
    \/ MountPersist
    \/ MountRerender

SpecHydrate == InitHydrate /\ [][NextHydrate]_vars

\* The keys every record of a collection has
RequiredKeys(key) ==
    CASE key = ChatKey -> {"id", "text", "sender", "timestamp"}
      [] key = SleepKey -> {"id"} \cup SleepKeys
      [] key = JournalKey -> {"id", "title", "content", "date"}

WellShaped(key, val) ==
    \A i \in 1..Len(val) : RequiredKeys(key) \subseteq DOMAIN val[i]

\* C24: after the mount, a collection whose key held an array with elements
\* that are not records of the collection's shape has its default (the
\* greeting for the chat, empty for sleep and journal).
C24_MalformedLeavesDefault ==
    last.op = "mounted" =>
        \A k \in Keys :
            LET stored == last.boot.stored[k] IN
            (stored.kind = "array" /\ ~WellShaped(k, stored.val))
                => Collection(k) = Default(k)

-----------------------------------------------------------------------------
(* Claims on the chat session *)

\* The bot messages after the greeting, by position
BotReplies == {i \in 2..Len(chatMessages) : chatMessages[i].sender = "bot"}

\* The text of a message is one of the canned replies
IsCanned(m) == \E k \in 1..Len(botResponses) : m.text = <<botResponses[k]>>

\* C25: the last-error indicator is non-null exactly when the most recent
\* completed sendMessage ended with a canned reply, and null when it ended
\* with a reply of the assistant or when none has completed; a send in
\* progress leaves it as it is.  After a failed reply it holds the message of
\* the error.
C25_LastErrorFollowsLastReply ==
    /\ IF BotReplies = {} THEN lastError = Null
       ELSE LET latest == CHOOSE i \in BotReplies : \A j \in BotReplies : j <= i
            IN  lastError # Null <=> IsCanned(chatMessages[latest])
    /\ (last.op = "replied" /\ last.threw) =>
          lastError = (IF apiKey THEN last.answer.message ELSE "Missing API key")
    /\ (last.op = "replied" /\ ~last.threw) => lastError = Null

\* C25 witness: a send that ended with a canned reply, then a send that ended
\* with a reply of the assistant, and the indicator is null again
C25_Witness ==
    /\ last.op = "replied"
    /\ ~last.threw
    /\ lastError = Null
    /\ \E i \in BotReplies :
         /\ IsCanned(chatMessages[i])
         /\ \E j \in BotReplies : j > i /\ ~IsCanned(chatMessages[j])

\* C25 witness: a send is in progress after a failed one, and the indicator
\* still holds the error
C25_WitnessPending ==
    /\ sm.pc = "reply"
    /\ lastError = "Failed to fetch"
    /\ BotReplies # {}

\* C26: from the start until hydration has settled, a key that held a valid
\* non-empty collection at the start still holds it: no step of the mount
\* overwrites it with the in-memory default.
C26_StartupKeepsStored ==
    last.op \in {"hydrate", "persist", "mounted"} =>
        \A k \in Keys :
            LET stored == last.boot.stored[k] IN
            (stored.kind = "array" /\ Len(stored.val) > 0
             /\ WellShaped(k, stored.val))
                => storage[k] = stored

-----------------------------------------------------------------------------
(* Claims on the exchange with the assistant *)

UserMessages == {i \in 1..Len(chatMessages) : chatMessages[i].sender = "user"}

AutoDetected ==
    {i \in 1..Len(moodHistory) : moodHistory[i].note = "Auto-detected from chat"}

\* C28: every sendMessage with non-blank input records one mood entry with
\* the note "Auto-detected from chat" and at least one todo, before its bot
\* message is appended and whether the reply then succeeds or fails; a blank
\* input changes no collection and starts no request.
C28_MoodAndTodoPerMessage ==
    /\ Cardinality(AutoDetected)
          = Cardinality(UserMessages) - (IF sm.pc = "analyze" THEN 1 ELSE 0)
    /\ last.op = "analyzed" =>
          /\ Len(moodHistory) = Len(last.before.moodHistory) + 1
          /\ moodHistory[1].note = "Auto-detected from chat"
          /\ moodHistory[1].mood = last.analysis.mood
          /\ Len(todos) > Len(last.before.todos)
          /\ chatMessages = last.before.chatMessages
          /\ chatMessages[Len(chatMessages)].sender = "user"
    /\ last.op = "replied" =>
          /\ SameMemory({"chatMessages"})
          /\ todos # <<>>
    /\ last.op = "sendBlank" =>
          /\ SameMemory({})
          /\ storage = last.before.storage
          /\ sm = Idle
          /\ ~isTyping

\* C28 witness: without a credential a message has been analysed by the
\* rules and answered with a canned reply; its mood entry and todos are there
C28_Witness ==
    /\ last.op = "replied"
    /\ last.threw
    /\ ~apiKey
    /\ Cardinality(AutoDetected) = 1
    /\ Len(todos) >= 2

\* C28 witness: a whitespace-only input has been sent
C28_WitnessBlank ==
    /\ last.op = "sendBlank"
    /\ last.before.chatMessages = chatMessages
    /\ currentMessage = <<Blank>>

\* C28 witness: the classifier answered without a todo
C28_WitnessNoTodo ==
    /\ last.op = "analyzed"
    /\ last.resp.kind = "json"
    /\ last.resp.value.todos.items = <<>>
    /\ todos # <<>>

-----------------------------------------------------------------------------
(* Claims on the habits and todos over a session *)

\* C29: for every habit in every reachable state, the completion date is set
\* exactly when the completion flag is true; the streak is a natural number,
\* equal to the number of times the habit went from incomplete to complete
\* since it was created, at least 1 on a completed habit, and not smaller
\* than it was before the last operation.
C29_HabitInvariant ==
    /\ \A i \in 1..Len(habits) :
          LET h == habits[i] IN
          /\ (h.dateCompleted # Undefined) <=> h.completed
          /\ h.streak \in Nat
          /\ h.streak = completions[h.id]
          /\ h.completed => h.streak >= 1
    /\ "before" \in DOMAIN last =>
          \A i \in 1..Len(habits), j \in 1..Len(last.before.habits) :
              habits[i].id = last.before.habits[j].id
                  => habits[i].streak >= last.before.habits[j].streak

\* C29 witness: a habit has been checked, unchecked and checked again
C29_Witness ==
    /\ last.op = "toggleHabit"
    /\ \E i \in 1..Len(habits) :
         /\ habits[i].id = last.id
         /\ habits[i].completed
         /\ habits[i].streak = 2
         /\ habits[i].dateCompleted = IsoDate(now)

\* C29 witness: a habit with a streak has been unchecked
C29_WitnessUnchecked ==
    /\ last.op = "toggleHabit"
    /\ \E i \in 1..Len(habits) :
         /\ habits[i].id = last.id
         /\ ~habits[i].completed
         /\ habits[i].streak = 1
         /\ habits[i].dateCompleted = Undefined

\* C30: toggleHabit and deleteHabit leave the todos as they are, and so does
\* every operation of a session but the addTodos of sendMessage, which only
\* puts todos in front of those it found; no todo is ever completed and the
\* collection does not shrink during a session.
C30_TodosDriftFromHabits ==
    /\ \A i \in 1..Len(todos) : todos[i].completed = FALSE
    /\ "before" \in DOMAIN last =>
          LET found == last.before.todos IN
          IF last.op = "analyzed"
          THEN /\ Len(todos) >= Len(found)
               /\ SubSeq(todos, Len(todos) - Len(found) + 1, Len(todos)) = found
          ELSE todos = found

\* C30 witness: the habit mirrored from a todo has been completed, and then
\* deleted, while the todo is still there and not completed
C30_Witness ==
    /\ last.op = "deleteHabit"
    /\ todos # <<>>
    /\ \E j \in 1..Len(last.before.habits) :
         /\ last.before.habits[j].id = last.id
         /\ last.before.habits[j].completed
         /\ \E i \in 1..Len(todos) :
              /\ todos[i].title = last.before.habits[j].name
              /\ ~todos[i].completed
    /\ Len(habits) < Len(last.before.habits)

=============================================================================
